---- MODULE Spec2Model ----
(***************************************************************************)
(* Model of getaltsclient/client.py: the GetAltsClient facade, its         *)
(* transport (_get), the ActivationContext objects it mutates in place,    *)
(* the lifecycle operations and the bounded poll loop                      *)
(* register_code_received_callback.                                        *)
(*                                                                         *)
(* A task is one coroutine of the event loop running one client operation. *)
(* A task runs atomically from one await to the next, so every action here *)
(* is one such stretch of code.  The remote service and the wall clock are *)
(* the environment: any response may answer any request, and the clock     *)
(* advances on its own.                                                    *)
(***************************************************************************)
EXTENDS Integers, Sequences, FiniteSets, TLC

\* ------------------------------------------------------------------ bounds
MaxCtx == 2        \* ActivationContext objects the heap has room for
MaxBuys == 1       \* buy_number calls a caller makes
MaxClock == 16     \* last clock reading (seconds) the model explores
MaxWait == 10      \* largest max_wait (seconds) a caller passes
MaxStart == 0      \* latest clock reading at which a wait is started
PollSeconds == 2   \* shortest time a slow remote takes to answer a poll

\* --------------------------------------------------------------- constants
SleepSeconds == 5  \* asyncio.sleep(5)

Tasks == {"t1", "t2"}

\* The max_wait values callers pass: none, less than one sleep, two sleeps.
MaxWaits == {0, SleepSeconds - 1, MaxWait}
CtxIds == 1 .. MaxCtx

None == "None"       \* Python's None
Absent == "<absent>" \* a key the JSON object does not have

\* ------------------------------------------------------------ enumerations
\* An Enum class: its members in declaration order, each <<name, value>>.
ServiceEnum ==
    <<<<"Microsoft", "ms">>, <<"Google", "go">>, <<"GMail", "gm">>,
      <<"Yahoo", "yh">>, <<"LinkedIN", "ln">>, <<"Uber", "ub">>,
      <<"WeChat", "wc">>, <<"Instagram", "ig">>, <<"LineMessenger", "lm">>,
      <<"Telegram", "tg">>, <<"VkCom", "vk">>, <<"YouTube", "yt">>,
      <<"Facebook", "fb">>, <<"Steam", "st">>, <<"Yandex", "ya">>,
      <<"Whatsapp", "wp">>, <<"Tinder", "ti">>, <<"Twitter", "tw">>,
      <<"AnyOther", "ot">>>>

\* Country as it would be with one code given to two members
CountryEnumShared ==
    <<<<"Russia", "ru">>, <<"Gambia", "gm">>, <<"Chad", "tg">>,
      <<"Germany", "gm">>>>

CountryEnum ==
    <<<<"Russia", "ru">>, <<"Ukraine", "ua">>, <<"Kazakhstan", "kz">>,
      <<"China", "cn">>, <<"Philippines", "ph">>, <<"Myanmar", "mm">>,
      <<"Indonesia", "id">>, <<"Malaysia", "my">>, <<"Kenya", "ke">>,
      <<"Tanzania", "tz">>, <<"Vietnam", "vn">>, <<"Kyrgyzstan", "kg">>,
      <<"USA", "us">>, <<"Israel", "il">>, <<"HongKong", "hk">>,
      <<"Poland", "pl">>, <<"UnitedKingdom", "uk">>, <<"Madagascar", "mg">>,
      <<"Congo", "cg">>, <<"Nigeria", "ng">>, <<"Macau", "mo">>,
      <<"Egypt", "eg">>, <<"Ireland", "ie">>, <<"Cambodia", "kh">>,
      <<"Lao", "la">>, <<"Haiti", "ht">>, <<"IvoryCoast", "ci">>,
      <<"Gambia", "gm">>, <<"Serbian", "rs">>, <<"Yemen", "ye">>,
      <<"SouthAfrica", "za">>, <<"Romania", "ro">>, <<"Estonia", "ee">>,
      <<"Azerbaijan", "az">>, <<"Canada", "ca">>, <<"Morocco", "ma">>,
      <<"Ghana", "gh">>, <<"Argentina", "ar">>, <<"Uzbekistan", "uz">>,
      <<"Cameroon", "cm">>, <<"Chad", "tg">>, <<"Germany", "de">>,
      <<"Lithuania", "lt">>, <<"Croatia", "hr">>, <<"Iraq", "iq">>,
      <<"Netherlands", "nl">>, <<"India", "in">>>>

StatusEnum ==
    <<<<"Ready", "READY">>, <<"AccessReady", "ACCESS_READY">>,
      <<"WaitingForCode", "STATUS_WAIT_CODE">>,
      <<"Cancelled", "ACCESS_CANCEL">>,
      <<"AccessConfirmGet", "ACCESS_CONFIRM_GET">>,
      <<"StatusOk", "STATUS_OK">>>>

Members(enum) == {enum[i][1] : i \in DOMAIN enum}
Values(enum) == {enum[i][2] : i \in DOMAIN enum}

\* member.value
ValueOf(enum, member) ==
    enum[CHOOSE i \in DOMAIN enum : enum[i][1] = member][2]

\* Enum(value) for a value some member has: the first member declared with it
ByValue(enum, value) ==
    enum[CHOOSE i \in DOMAIN enum :
            /\ enum[i][2] = value
            /\ \A j \in DOMAIN enum : enum[j][2] = value => i <= j][1]

\* class Status(Enum): wire value -> member
StatusByValue == [w \in Values(StatusEnum) |-> ByValue(StatusEnum, w)]

\* class _Action(Enum): member -> wire value
ActionValue ==
    [a \in {"SendSMS", "Cancel", "End", "SendAnotherCode", "AlreadyUsed"} |->
        CASE a = "SendSMS" -> "SMS_SENT"
          [] a = "Cancel" -> "CANCEL"
          [] a = "End" -> "END"
          [] a = "SendAnotherCode" -> "ONE_MORE_CODE"
          [] a = "AlreadyUsed" -> "ALREADY_USED"]

\* _set_activation_status as it would be if the value were sent as declared
AsDeclared(s) == s

\* str.lower() on the wire values of _Action
Lower(s) ==
    CASE s = "SMS_SENT" -> "sms_sent"
      [] s = "CANCEL" -> "cancel"
      [] s = "END" -> "end"
      [] s = "ONE_MORE_CODE" -> "one_more_code"
      [] s = "ALREADY_USED" -> "already_used"
      [] OTHER -> s

\* ------------------------------------------------------ the remote's answers
Codes == {"0", "7"}   \* the integers 0 and 7

\* The status values and code fields the remote answers with: known wire
\* values, one that no member has, and a missing key; a code key that is
\* missing, null, or an integer.
StatusWires == {"READY", "STATUS_WAIT_CODE", "STATUS_OK", "BOGUS", Absent}
CodeFields == Codes \cup {None, Absent}

\* A decoded JSON object: each key holds its value, or Absent.
Payloads ==
    [error : {Absent}, status : StatusWires, code : CodeFields,
     phone_number : {"+7900"}, activation_id : {"42"}]
    \cup
    [error : {Absent}, status : {"STATUS_OK"}, code : {Absent, "7"},
     phone_number : {"+7901", Absent}, activation_id : {"43", Absent}]
    \cup
    [error : {"NO_BALANCE", "BAD_STATUS"}, status : {Absent, "STATUS_OK"},
     code : {Absent}, phone_number : {Absent}, activation_id : {Absent}]

NoBody == [error |-> Absent, status |-> Absent, code |-> Absent,
           phone_number |-> Absent, activation_id |-> Absent]

\* What comes back for one request: the transport's fate, whether the text
\* is JSON, and the decoded object.
Responses ==
    [net : {"ok"}, json : {TRUE}, body : Payloads]
    \cup [net : {"ok"}, json : {FALSE}, body : {NoBody}]
    \cup [net : {"connect_error", "timeout"}, json : {FALSE}, body : {NoBody}]
    \cup [net : {"http_error"}, json : {TRUE},
          body : {b \in Payloads : /\ b.status = "STATUS_OK"
                                   /\ b.code \in {Absent, "7"}
                                   /\ b.phone_number = Absent
                                   /\ b.activation_id = Absent}]

NoException == [type |-> "none", arg |-> None]
Exception(type, arg) == [type |-> type, arg |-> arg]

\* The JSON objects the count and price endpoints answer with, as the items()
\* of the decoded dict in their order, each <<key, value>>: an empty object,
\* one key (a code of a service, of a country, of neither), and two keys.
QueryKeys == Values(ServiceEnum) \cup Values(CountryEnum) \cup {"zz", "TG"}
QueryDicts ==
    {<<>>}
    \cup {<<<<k, "5">>>> : k \in QueryKeys}
    \cup {<<<<"tg", "5">>, <<"zz", "1">>>>, <<<<"zz", "5">>, <<"tg", "1">>>>,
          <<<<"gm", "5">>, <<"ru", "1">>>>, <<<<"ms", "5">>, <<"tg", "1">>>>}

QueryBody(error, items) ==
    [error |-> error, status |-> Absent, code |-> Absent,
     phone_number |-> Absent, activation_id |-> Absent, items |-> items]

QueryResponses ==
    {[net |-> "ok", json |-> TRUE, body |-> QueryBody(Absent, d)] :
        d \in QueryDicts}
    \cup {[net |-> "ok", json |-> TRUE, body |-> QueryBody("BAD_KEY", <<>>)],
          [net |-> "ok", json |-> FALSE, body |-> QueryBody(Absent, <<>>)],
          [net |-> "timeout", json |-> FALSE, body |-> QueryBody(Absent, <<>>)]}

\* The few of them a session with purchases and status calls also sees
FewQueryResponses ==
    {r \in QueryResponses :
        \A i \in DOMAIN r.body.items :
            r.body.items[i][1] \in {"tg", "gm", "ru", "zz"}}

\* Successful status responses, one for each wire value and one for none
StatusAnswers ==
    {[net |-> "ok", json |-> TRUE, body |-> [NoBody EXCEPT !.status = w]] :
        w \in Values(StatusEnum) \cup {"BOGUS"}}

\* ------------------------------------------------------------------- state
VARIABLES
    ctx,       \* the ActivationContext objects, by identity
    now,       \* datetime.now(), in seconds
    pc,        \* where each task is suspended
    call,      \* each task's running operation and its local variables
    req,       \* the request each task has in flight
    sessions,  \* aiohttp.ClientSession scopes each task holds open
    result,    \* how each task's last operation ended
    sent,      \* requests the running operation has issued, in order
    answers,   \* what each of them came back as
    got,      \* the last response the running operation received
    sleeps,    \* asyncio.sleep calls of the running operation
    cb         \* invocations of the caller's callback

vars == <<ctx, now, pc, call, req, sessions, result, sent, answers, got,
          sleeps, cb>>

\* A slot of the heap that holds no ActivationContext yet.
NoCtx == [phone_number |-> None, activation_id |-> None, status |-> None,
          code |-> None]
Allocated(c) == ctx[c] # NoCtx

NoCall == [op |-> "none", c |-> 0, arg |-> None, before |-> NoCtx,
           max_wait |-> 0, start |-> 0, asked |-> 0, wake |-> 0,
           coroutine |-> FALSE]
NoResponse == [net |-> "none", json |-> FALSE, body |-> NoBody]
NoReq == [endpoint |-> "none", activation_id |-> None, status |-> None,
          service |-> None, country |-> None]
NoResult == [kind |-> "none", value |-> 0, exc |-> NoException]

\* value: the identity of the returned context, the items of the dict a
\* query returned, 0 for a bare return
Returned(v) == [kind |-> "returned", value |-> v, exc |-> NoException]
Raised(e) == [kind |-> "raised", value |-> 0, exc |-> e]

\* ----------------------------------------------------------- pure functions
\* _get as it would be if the body were read before the status is checked
GetBodyFirst(resp) ==
    IF resp.json /\ resp.body.error # Absent
    THEN [exc |-> Exception("GetAltsAPIError", resp.body.error),
          payload |-> NoBody]
    ELSE IF resp.net # "ok"
    THEN [exc |-> Exception("TransportError", resp.net), payload |-> NoBody]
    ELSE IF ~resp.json
    THEN [exc |-> Exception("JSONDecodeError", None), payload |-> NoBody]
    ELSE [exc |-> NoException, payload |-> resp.body]

\* _get, from the response on: raise_for_status, json.loads, the error key.
Get(resp) ==
    IF resp.net # "ok"
    THEN [exc |-> Exception("TransportError", resp.net), payload |-> NoBody]
    ELSE IF ~resp.json
    THEN [exc |-> Exception("JSONDecodeError", None), payload |-> NoBody]
    ELSE IF resp.body.error # Absent
    THEN [exc |-> Exception("GetAltsAPIError", resp.body.error),
          payload |-> NoBody]
    ELSE [exc |-> NoException, payload |-> resp.body]

\* response.get("code", None)
GetCode(response) == IF response.code = Absent THEN None ELSE response.code

\* Status(value): the member, or ValueError
StatusLookup(value) ==
    IF value \in DOMAIN StatusByValue
    THEN [exc |-> NoException, member |-> StatusByValue[value]]
    ELSE [exc |-> Exception("ValueError", value), member |-> None]

\* The dict comprehension as it would be if unknown keys were passed over
DecodeKeysKnown(enum, items) ==
    LET known == SelectSeq(items, LAMBDA p : p[1] \in Values(enum)) IN
    [exc |-> NoException,
     ret |-> [i \in DOMAIN known |->
                <<ByValue(enum, known[i][1]), known[i][2]>>]]

\* {Enum(k): v for k, v in response.items()}: the first key that is no
\* member's value raises ValueError and no dict is built.
DecodeKeys(enum, items) ==
    IF \E i \in DOMAIN items : items[i][1] \notin Values(enum)
    THEN [exc |-> Exception("ValueError",
                            items[CHOOSE i \in DOMAIN items :
                                /\ items[i][1] \notin Values(enum)
                                /\ \A j \in DOMAIN items :
                                      items[j][1] \notin Values(enum)
                                      => i <= j][1]),
          ret |-> <<>>]
    ELSE [exc |-> NoException,
          ret |-> [i \in DOMAIN items |->
                     <<ByValue(enum, items[i][1]), items[i][2]>>]]

\* The enumeration each query decodes the keys of its response with
KeyEnum(op) ==
    IF op = "get_prices_by_service" THEN CountryEnum ELSE ServiceEnum

\* A count or price query from the response on: _get, then the decoding
QueryOutcome(op, resp) ==
    IF Get(resp).exc # NoException THEN Get(resp)
    ELSE DecodeKeys(KeyEnum(op), Get(resp).payload.items)

\* The smallest unused identity of the heap (0 when the bound is reached).
FreeSlot(heap) ==
    IF \E i \in DOMAIN heap : heap[i] = NoCtx
    THEN CHOOSE i \in DOMAIN heap :
            heap[i] = NoCtx /\ \A j \in DOMAIN heap : heap[j] = NoCtx => i <= j
    ELSE 0

\* from_dict as it would be if it also took the code of the purchase response
from_dict_with_code(heap, data) ==
    IF data.phone_number = Absent
    THEN [exc |-> Exception("KeyError", "phone_number"), heap |-> heap, ret |-> 0]
    ELSE IF data.activation_id = Absent
    THEN [exc |-> Exception("KeyError", "activation_id"), heap |-> heap, ret |-> 0]
    ELSE IF data.status = Absent
    THEN [exc |-> Exception("KeyError", "status"), heap |-> heap, ret |-> 0]
    ELSE IF StatusLookup(data.status).exc # NoException
    THEN [exc |-> StatusLookup(data.status).exc, heap |-> heap, ret |-> 0]
    ELSE [exc |-> NoException,
          heap |-> [heap EXCEPT ![FreeSlot(heap)] =
                      [phone_number |-> data.phone_number,
                       activation_id |-> data.activation_id,
                       status |-> StatusLookup(data.status).member,
                       code |-> GetCode(data)]],
          ret |-> FreeSlot(heap)]

\* ActivationContext._from_dict: allocates a new object and returns it (ret),
\* or raises
from_dict(heap, data) ==
    IF data.phone_number = Absent
    THEN [exc |-> Exception("KeyError", "phone_number"), heap |-> heap, ret |-> 0]
    ELSE IF data.activation_id = Absent
    THEN [exc |-> Exception("KeyError", "activation_id"), heap |-> heap, ret |-> 0]
    ELSE IF data.status = Absent
    THEN [exc |-> Exception("KeyError", "status"), heap |-> heap, ret |-> 0]
    ELSE IF StatusLookup(data.status).exc # NoException
    THEN [exc |-> StatusLookup(data.status).exc, heap |-> heap, ret |-> 0]
    ELSE [exc |-> NoException,
          heap |-> [heap EXCEPT ![FreeSlot(heap)] =
                      [phone_number |-> data.phone_number,
                       activation_id |-> data.activation_id,
                       status |-> StatusLookup(data.status).member,
                       code |-> None]],
          ret |-> FreeSlot(heap)]

\* context_from_response as it would be if the code were never written
context_from_response_status_only(heap, old_context, response) ==
    IF response.status = Absent
    THEN [exc |-> Exception("KeyError", "status"), heap |-> heap, ret |-> 0]
    ELSE IF StatusLookup(response.status).exc # NoException
    THEN [exc |-> StatusLookup(response.status).exc, heap |-> heap, ret |-> 0]
    ELSE [exc |-> NoException,
          heap |-> [heap EXCEPT
                      ![old_context].status = StatusLookup(response.status).member],
          ret |-> old_context]

\* context_from_response as it would be with the two assignments swapped:
\* the code is written before the status is decoded
context_from_response_code_first(heap, old_context, response) ==
    IF response.status = Absent
    THEN [exc |-> Exception("KeyError", "status"),
          heap |-> [heap EXCEPT ![old_context].code = GetCode(response)],
          ret |-> 0]
    ELSE IF StatusLookup(response.status).exc # NoException
    THEN [exc |-> StatusLookup(response.status).exc,
          heap |-> [heap EXCEPT ![old_context].code = GetCode(response)],
          ret |-> 0]
    ELSE [exc |-> NoException,
          heap |-> [heap EXCEPT
                      ![old_context].status = StatusLookup(response.status).member,
                      ![old_context].code = GetCode(response)],
          ret |-> old_context]

\* context_from_response as it would be if it took every field the response
\* carries, the identifiers included
context_from_response_all_fields(heap, old_context, response) ==
    IF response.status = Absent
    THEN [exc |-> Exception("KeyError", "status"), heap |-> heap, ret |-> 0]
    ELSE IF StatusLookup(response.status).exc # NoException
    THEN [exc |-> StatusLookup(response.status).exc, heap |-> heap, ret |-> 0]
    ELSE [exc |-> NoException,
          heap |-> [heap EXCEPT
                      ![old_context].status = StatusLookup(response.status).member,
                      ![old_context].code = GetCode(response),
                      ![old_context].phone_number =
                          IF response.phone_number = Absent THEN @
                          ELSE response.phone_number,
                      ![old_context].activation_id =
                          IF response.activation_id = Absent THEN @
                          ELSE response.activation_id],
          ret |-> old_context]

\* __context_from_response as it would be if status and code were kept once
\* for the client instead of on the context handed in
context_from_response_shared(heap, old_context, response) ==
    IF response.status = Absent
    THEN [exc |-> Exception("KeyError", "status"), heap |-> heap, ret |-> 0]
    ELSE IF StatusLookup(response.status).exc # NoException
    THEN [exc |-> StatusLookup(response.status).exc, heap |-> heap, ret |-> 0]
    ELSE [exc |-> NoException,
          heap |-> [c \in DOMAIN heap |->
                      IF heap[c] = NoCtx THEN heap[c]
                      ELSE [heap[c] EXCEPT
                              !.status = StatusLookup(response.status).member,
                              !.code = GetCode(response)]],
          ret |-> old_context]

\* __context_from_response as it would be if a response without a code key
\* left the code of the context as it is
context_from_response_keeps_code(heap, old_context, response) ==
    IF response.status = Absent
    THEN [exc |-> Exception("KeyError", "status"), heap |-> heap, ret |-> 0]
    ELSE IF StatusLookup(response.status).exc # NoException
    THEN [exc |-> StatusLookup(response.status).exc, heap |-> heap, ret |-> 0]
    ELSE [exc |-> NoException,
          heap |-> [heap EXCEPT
                      ![old_context].status = StatusLookup(response.status).member,
                      ![old_context].code =
                          IF response.code = Absent THEN @ ELSE response.code],
          ret |-> old_context]

\* GetAltsClient.__context_from_response: the heap as the two assignments
\* leave it, the object returned (ret), and the exception raised, if any
context_from_response(heap, old_context, response) ==
    IF response.status = Absent
    THEN [exc |-> Exception("KeyError", "status"), heap |-> heap, ret |-> 0]
    ELSE IF StatusLookup(response.status).exc # NoException
    THEN [exc |-> StatusLookup(response.status).exc, heap |-> heap, ret |-> 0]
    ELSE [exc |-> NoException,
          heap |-> [heap EXCEPT
                      ![old_context].status = StatusLookup(response.status).member,
                      ![old_context].code = GetCode(response)],
          ret |-> old_context]

\* get_activation_status and _set_activation_status once the response is in:
\* _get's verdict, then __context_from_response on the payload
StatusOutcome(heap, activation_context, resp) ==
    IF Get(resp).exc # NoException
    THEN [exc |-> Get(resp).exc, heap |-> heap, ret |-> 0]
    ELSE context_from_response(heap, activation_context, Get(resp).payload)

\* buy_number once the response is in
BuyOutcome(heap, resp) ==
    IF Get(resp).exc # NoException
    THEN [exc |-> Get(resp).exc, heap |-> heap, ret |-> 0]
    ELSE from_dict(heap, Get(resp).payload)

\* Caught as it would be with "except Exception" / with the wrong class
CaughtAny(exc) == exc.type # "CancelledError"
CaughtWrongClass(exc) == exc.type = "NoCodeReceived"

\* cancel_activation: except GetAltsAPIError
Caught(exc) == exc.type = "GetAltsAPIError"

\* DeadlineExceeded as it would be with >= for >
DeadlineReached(clock, start, max_wait) == clock >= start + max_wait

\* The deadline check as it would be if the wait had no deadline
DeadlineNever(clock, start, max_wait) == FALSE

\* The deadline check as it would be if the elapsed time were counted in
\* sleeps instead of read from the clock
DeadlineBySleeps(clock, start, max_wait) ==
    \E t \in Tasks : pc[t] = "loop" /\ SleepSeconds * sleeps[t] > max_wait

\* register_code_received_callback: datetime.now() > start + max_wait
DeadlineExceeded(clock, start, max_wait) == clock > start + max_wait

\* CodePresent as it would be with "if context.code:" (0 is falsy)
CodeTruthy(code) == code # None /\ code # "0"

\* register_code_received_callback: context.code is not None
CodePresent(code) == code # None

\* AfterPoll as it would be if a failed poll were swallowed and retried
AfterPollRetrying(o) ==
    IF o.exc # NoException THEN "sleep"
    ELSE IF CodePresent(o.heap[o.ret].code) THEN "break"
    ELSE "sleep"

\* register_code_received_callback, the loop body after the poll: an
\* exception of get_activation_status leaves the loop and the function, a
\* code breaks out of the loop to the callback, anything else sleeps.
AfterPoll(o) ==
    IF o.exc # NoException THEN "raise"
    ELSE IF CodePresent(o.heap[o.ret].code) THEN "break"
    ELSE "sleep"

\* What the remote said about the code, as a test double would log it.
Answer(resp) ==
    IF Get(resp).exc # NoException THEN Get(resp).exc.type
    ELSE IF resp.body.status \notin DOMAIN StatusByValue THEN "malformed"
    ELSE IF resp.body.code \in Codes THEN "code"
    ELSE "nocode"

\* ------------------------------------------------------------ enumerations
\* class Service(Enum) and class Country(Enum): member -> wire value
ServiceValue == [m \in Members(ServiceEnum) |-> ValueOf(ServiceEnum, m)]
CountryValue == [m \in Members(CountryEnum) |-> ValueOf(CountryEnum, m)]

\* The members the caller of buy_number passes
BuyServices == {"Telegram", "GMail"}
BuyCountries == {"Russia", "Gambia"}

\* ---------------------------------------------------------------- requests
Request(endpoint, activation_id, status, service, country) ==
    [endpoint |-> endpoint, activation_id |-> activation_id,
     status |-> status, service |-> service, country |-> country]

\* get_activation_status: the parameters it hands to _get
StatusRequest(heap, activation_context) ==
    Request("get_activation_status", heap[activation_context].activation_id,
            None, None, None)

\* _set_activation_status: the parameters it hands to _get
SetStatusRequest(heap, activation_context, new_status) ==
    Request("set_activation_status", heap[activation_context].activation_id,
            Lower(ActionValue[new_status]), None, None)

\* The operation each public lifecycle wrapper sends
ActionOf ==
    [op \in {"set_ready_for_code", "end_activation", "send_another_code",
             "mark_number_as_already_used", "cancel_activation"} |->
        CASE op = "set_ready_for_code" -> "SendSMS"
          [] op = "end_activation" -> "End"
          [] op = "send_another_code" -> "SendAnotherCode"
          [] op = "mark_number_as_already_used" -> "AlreadyUsed"
          [] op = "cancel_activation" -> "Cancel"]

StatusOps == {"get_activation_status", "set_ready_for_code", "end_activation",
              "send_another_code", "mark_number_as_already_used"}

Frame(op, c) == [NoCall EXCEPT !.op = op, !.c = c,
                               !.before = IF c = 0 THEN NoCtx ELSE ctx[c]]

\* ------------------------------------------------------- pieces of actions
\* An idle task starts an operation; nothing of an earlier one is kept.
Begin(t, frame) ==
    /\ pc[t] = "idle"
    /\ call' = [call EXCEPT ![t] = frame]
    /\ result' = [result EXCEPT ![t] = NoResult]
    /\ answers' = [answers EXCEPT ![t] = <<>>]
    /\ got' = [got EXCEPT ![t] = NoResponse]
    /\ sleeps' = [sleeps EXCEPT ![t] = 0]
    /\ cb' = [cb EXCEPT ![t] = <<>>]

\* Enter as it would be if _get used a session made once for the client
EnterWithoutSession(t, r, earlier, held) ==
    /\ req' = [req EXCEPT ![t] = r]
    /\ UNCHANGED sessions
    /\ sent' = [sent EXCEPT ![t] = Append(earlier, r)]
    /\ pc' = [pc EXCEPT ![t] = "get"]

\* _get up to its await: a session scope is opened and the request goes out.
\* held: the scopes the task holds when it enters; earlier: what it has sent.
Enter(t, r, earlier, held) ==
    /\ req' = [req EXCEPT ![t] = r]
    /\ sessions' = [sessions EXCEPT ![t] = held + 1]
    /\ sent' = [sent EXCEPT ![t] = Append(earlier, r)]
    /\ pc' = [pc EXCEPT ![t] = "get"]

\* Leave as it would be if the session were not held in an async-with
LeaveSessionOpen(t) ==
    /\ req' = [req EXCEPT ![t] = NoReq]
    /\ UNCHANGED sessions

\* _get is left, by return or by exception: both async-with scopes close.
Leave(t) ==
    /\ req' = [req EXCEPT ![t] = NoReq]
    /\ sessions' = [sessions EXCEPT ![t] = @ - 1]

\* The operation ends; the task is idle again.
Finish(t, res) ==
    /\ pc' = [pc EXCEPT ![t] = "idle"]
    /\ result' = [result EXCEPT ![t] = res]

\* A response reaches the task suspended in _get.
Receive(t, resp) ==
    /\ pc[t] = "get"
    /\ got' = [got EXCEPT ![t] = resp]
    /\ answers' = [answers EXCEPT ![t] = Append(@, Answer(resp))]

\* ----------------------------------------------------------------- actions
buy_number(t, service, country) ==
    /\ FreeSlot(ctx) # 0
    /\ Cardinality({c \in CtxIds : Allocated(c)}) < MaxBuys
    /\ Begin(t, Frame("buy_number", 0))
    /\ Enter(t, Request("buy_number", None, None, ServiceValue[service],
                        CountryValue[country]), <<>>, sessions[t])
    /\ UNCHANGED <<ctx, now>>

RespondBuy(t, resp) ==
    /\ call[t].op = "buy_number"
    /\ Receive(t, resp)
    /\ Leave(t)
    /\ LET o == BuyOutcome(ctx, resp) IN
         /\ ctx' = o.heap
         /\ Finish(t, IF o.exc # NoException THEN Raised(o.exc)
                      ELSE Returned(o.ret))
    /\ UNCHANGED <<now, call, sent, sleeps, cb>>

get_activation_status(t, c) ==
    /\ Allocated(c)
    /\ Begin(t, Frame("get_activation_status", c))
    /\ Enter(t, StatusRequest(ctx, c), <<>>, sessions[t])
    /\ UNCHANGED <<ctx, now>>

\* set_ready_for_code, end_activation, send_another_code,
\* mark_number_as_already_used: each is _set_activation_status with its action
set_activation_status(t, op, c) ==
    /\ Allocated(c)
    /\ Begin(t, Frame(op, c))
    /\ Enter(t, SetStatusRequest(ctx, c, ActionOf[op]), <<>>, sessions[t])
    /\ UNCHANGED <<ctx, now>>

set_ready_for_code(t, c) == set_activation_status(t, "set_ready_for_code", c)
end_activation(t, c) == set_activation_status(t, "end_activation", c)
send_another_code(t, c) == set_activation_status(t, "send_another_code", c)
mark_number_as_already_used(t, c) ==
    set_activation_status(t, "mark_number_as_already_used", c)

\* The answer to get_activation_status or _set_activation_status, called
\* directly, through a wrapper, or as the fallback of cancel_activation.
RespondStatus(t, resp) ==
    /\ \/ call[t].op \in StatusOps
       \/ call[t].op = "cancel_activation" /\ req[t].status = "already_used"
    /\ Receive(t, resp)
    /\ Leave(t)
    /\ LET o == StatusOutcome(ctx, call[t].c, resp) IN
         /\ ctx' = o.heap
         /\ Finish(t, IF o.exc # NoException THEN Raised(o.exc)
                      ELSE Returned(o.ret))
    /\ UNCHANGED <<now, call, sent, sleeps, cb>>

cancel_activation(t, c) ==
    /\ Allocated(c)
    /\ Begin(t, Frame("cancel_activation", c))
    /\ Enter(t, SetStatusRequest(ctx, c, "Cancel"), <<>>, sessions[t])
    /\ UNCHANGED <<ctx, now>>

\* The answer to the Cancel request: returned, raised, or, when the except
\* clause catches it, mark_number_as_already_used is called.
RespondCancel(t, resp) ==
    /\ call[t].op = "cancel_activation"
    /\ req[t].status = "cancel"
    /\ Receive(t, resp)
    /\ LET o == StatusOutcome(ctx, call[t].c, resp) IN
         /\ ctx' = o.heap
         /\ IF o.exc # NoException /\ Caught(o.exc)
            THEN /\ Enter(t, SetStatusRequest(o.heap, call[t].c, "AlreadyUsed"),
                          sent[t], sessions[t] - 1)
                 /\ UNCHANGED result
            ELSE /\ Leave(t)
                 /\ sent' = sent
                 /\ Finish(t, IF o.exc # NoException THEN Raised(o.exc)
                              ELSE Returned(o.ret))
    /\ UNCHANGED <<now, call, sleeps, cb>>

register_code_received_callback(t, c, max_wait, coroutine) ==
    /\ Allocated(c)
    /\ now <= MaxStart
    /\ Begin(t, [Frame("register_code_received_callback", c) EXCEPT
                   !.max_wait = max_wait, !.start = now,
                   !.coroutine = coroutine])
    /\ sent' = [sent EXCEPT ![t] = <<>>]
    /\ pc' = [pc EXCEPT ![t] = "loop"]
    /\ UNCHANGED <<ctx, now, req, sessions>>

\* The head of the while loop: the deadline check, then either
\* raise NoCodeReceived or call get_activation_status.
LoopIteration(t) ==
    /\ pc[t] = "loop"
    /\ IF DeadlineExceeded(now, call[t].start, call[t].max_wait)
       THEN /\ Finish(t, Raised(Exception("NoCodeReceived", None)))
            /\ UNCHANGED <<req, sessions, sent, call>>
       ELSE /\ Enter(t, StatusRequest(ctx, call[t].c), sent[t], sessions[t])
            /\ call' = [call EXCEPT ![t].asked = now]
            /\ UNCHANGED result
    /\ UNCHANGED <<ctx, now, answers, got, sleeps, cb>>

\* The answer to a poll: raise, or break and run the callback, or sleep.
RespondPoll(t, resp) ==
    /\ call[t].op = "register_code_received_callback"
    /\ Receive(t, resp)
    /\ Leave(t)
    /\ LET o == StatusOutcome(ctx, call[t].c, resp) IN
         /\ ctx' = o.heap
         /\ IF AfterPoll(o) = "raise"
            THEN /\ Finish(t, Raised(o.exc))
                 /\ call' = [call EXCEPT ![t].asked = 0]
                 /\ UNCHANGED <<sleeps, cb>>
            ELSE IF AfterPoll(o) = "break"
            THEN /\ cb' = [cb EXCEPT ![t] =
                             Append(@, [context |-> o.ret,
                                        seen |-> o.heap[o.ret],
                                        awaited |-> call[t].coroutine])]
                 /\ Finish(t, Returned(0))
                 /\ call' = [call EXCEPT ![t].asked = 0]
                 /\ UNCHANGED sleeps
            ELSE /\ pc' = [pc EXCEPT ![t] = "sleep"]
                 /\ call' = [call EXCEPT ![t].asked = 0,
                                         ![t].wake = now + SleepSeconds]
                 /\ sleeps' = [sleeps EXCEPT ![t] = @ + 1]
                 /\ UNCHANGED <<result, cb>>
    /\ UNCHANGED <<now, sent>>

\* asyncio.sleep(5) is over.
SleepDone(t) ==
    /\ pc[t] = "sleep"
    /\ now >= call[t].wake
    /\ pc' = [pc EXCEPT ![t] = "loop"]
    /\ UNCHANGED <<ctx, now, call, req, sessions, result, sent, answers, got,
                   sleeps, cb>>

\* The caller cancels the task: CancelledError is raised at the await the
\* task is suspended in, and no handler of the client catches it.
Cancel(t) ==
    /\ pc[t] \in {"get", "sleep"}
    /\ IF pc[t] = "get" THEN Leave(t) ELSE UNCHANGED <<req, sessions>>
    /\ Finish(t, Raised(Exception("CancelledError", None)))
    /\ call' = [call EXCEPT ![t].asked = 0]
    /\ UNCHANGED <<ctx, now, sent, answers, got, sleeps, cb>>

\* The wall clock, for as long as a task is there to read it.
Tick ==
    /\ now < MaxClock
    /\ now < MaxStart \/ \E t \in Tasks : pc[t] # "idle"
    /\ now' = now + 1
    /\ UNCHANGED <<ctx, pc, call, req, sessions, result, sent, answers, got,
                   sleeps, cb>>

QueryOps == {"get_available_numbers_count", "get_prices_by_country",
             "get_prices_by_service"}

get_available_numbers_count(t, country) ==
    /\ Begin(t, [Frame("get_available_numbers_count", 0)
                    EXCEPT !.arg = country])
    /\ Enter(t, Request("get_amount", None, None, None,
                        CountryValue[country]), <<>>, sessions[t])
    /\ UNCHANGED <<ctx, now>>

get_prices_by_country(t, country) ==
    /\ Begin(t, [Frame("get_prices_by_country", 0) EXCEPT !.arg = country])
    /\ Enter(t, Request("get_prices_by_country", None, None, None,
                        CountryValue[country]), <<>>, sessions[t])
    /\ UNCHANGED <<ctx, now>>

get_prices_by_service(t, service) ==
    /\ Begin(t, [Frame("get_prices_by_service", 0) EXCEPT !.arg = service])
    /\ Enter(t, Request("get_prices_by_service", None, None,
                        ServiceValue[service], None), <<>>, sessions[t])
    /\ UNCHANGED <<ctx, now>>

\* The response to a count or price query: the decoded dict is returned as
\* the items of the dict, each <<member, value>>.
RespondQuery(t, resp) ==
    /\ pc[t] = "get"
    /\ call[t].op \in QueryOps
    /\ got' = [got EXCEPT ![t] = resp]
    /\ answers' = [answers EXCEPT ![t] =
                     Append(@, IF Get(resp).exc # NoException
                               THEN Get(resp).exc.type ELSE "payload")]
    /\ Leave(t)
    /\ LET o == QueryOutcome(call[t].op, resp) IN
         Finish(t, IF o.exc # NoException THEN Raised(o.exc)
                   ELSE Returned(o.ret))
    /\ UNCHANGED <<ctx, now, call, sent, sleeps, cb>>

\* ------------------------------------------------------------ specification
Init ==
    /\ ctx = [c \in CtxIds |-> NoCtx]
    /\ now = 0
    /\ pc = [t \in Tasks |-> "idle"]
    /\ call = [t \in Tasks |-> NoCall]
    /\ req = [t \in Tasks |-> NoReq]
    /\ sessions = [t \in Tasks |-> 0]
    /\ result = [t \in Tasks |-> NoResult]
    /\ sent = [t \in Tasks |-> <<>>]
    /\ answers = [t \in Tasks |-> <<>>]
    /\ got = [t \in Tasks |-> NoResponse]
    /\ sleeps = [t \in Tasks |-> 0]
    /\ cb = [t \in Tasks |-> <<>>]

\* One task uses the client: it runs one operation after the other.
Next ==
    \E t \in {"t1"} :
        \/ \E s \in BuyServices, k \in BuyCountries : buy_number(t, s, k)
        \/ \E c \in CtxIds : get_activation_status(t, c)
        \/ \E c \in CtxIds : set_ready_for_code(t, c)
        \/ \E c \in CtxIds : end_activation(t, c)
        \/ \E c \in CtxIds : send_another_code(t, c)
        \/ \E c \in CtxIds : mark_number_as_already_used(t, c)
        \/ \E c \in CtxIds : cancel_activation(t, c)
        \/ \E resp \in Responses : RespondBuy(t, resp)
        \/ \E resp \in Responses : RespondStatus(t, resp)
        \/ \E resp \in Responses : RespondCancel(t, resp)
        \/ Cancel(t)

Spec == Init /\ [][Next]_vars

\* The caller holds a context it bought earlier, marked ready for the code
\* (with or without a code from an earlier refresh), and waits for its code.
InitAwait ==
    /\ ctx \in [CtxIds ->
                 [phone_number : {"+7900"}, activation_id : {"42"},
                  status : {"WaitingForCode"}, code : {None, "7"}]
                 \cup {NoCtx}]
    /\ ctx[1] # NoCtx
    /\ \A c \in CtxIds : c > 1 => ctx[c] = NoCtx
    /\ now = 0
    /\ pc = [t \in Tasks |-> "idle"]
    /\ call = [t \in Tasks |-> NoCall]
    /\ req = [t \in Tasks |-> NoReq]
    /\ sessions = [t \in Tasks |-> 0]
    /\ result = [t \in Tasks |-> NoResult]
    /\ sent = [t \in Tasks |-> <<>>]
    /\ answers = [t \in Tasks |-> <<>>]
    /\ got = [t \in Tasks |-> NoResponse]
    /\ sleeps = [t \in Tasks |-> 0]
    /\ cb = [t \in Tasks |-> <<>>]

NextAwait ==
    \/ \E t \in {"t1"} :
        \/ \E c \in CtxIds, max_wait \in MaxWaits, coroutine \in BOOLEAN :
              register_code_received_callback(t, c, max_wait, coroutine)
        \/ LoopIteration(t)
        \/ \E resp \in Responses : RespondPoll(t, resp)
        \/ SleepDone(t)
        \/ Cancel(t)
    \/ Tick

SpecAwait == InitAwait /\ [][NextAwait]_vars

\* The caller asks for counts and prices with every member, and refreshes a
\* context it holds; the remote answers with every wire value.
NextQuery ==
    \E t \in {"t1"} :
        \/ \E k \in Members(CountryEnum) : get_available_numbers_count(t, k)
        \/ \E k \in Members(CountryEnum) : get_prices_by_country(t, k)
        \/ \E s \in Members(ServiceEnum) : get_prices_by_service(t, s)
        \/ \E resp \in QueryResponses : RespondQuery(t, resp)
        \/ \E c \in CtxIds : get_activation_status(t, c)
        \/ \E resp \in StatusAnswers : RespondStatus(t, resp)

SpecQuery == InitAwait /\ [][NextQuery]_vars

\* Purchases, status calls and queries in one session
NextDecode ==
    \/ Next
    \/ \E t \in {"t1"} :
        \/ \E k \in BuyCountries : get_available_numbers_count(t, k)
        \/ \E k \in BuyCountries : get_prices_by_country(t, k)
        \/ \E s \in BuyServices : get_prices_by_service(t, s)
        \/ \E resp \in FewQueryResponses : RespondQuery(t, resp)

SpecDecode == Init /\ [][NextDecode]_vars

\* Two tasks use the client at the same time, each with a context of its
\* own that it bought earlier.
Own(t) == IF t = "t1" THEN 1 ELSE 2

InitConc ==
    /\ ctx = [c \in CtxIds |->
                IF c = 1 THEN [phone_number |-> "+7900", activation_id |-> "42",
                               status |-> "WaitingForCode", code |-> None]
                ELSE IF c = 2
                THEN [phone_number |-> "+7901", activation_id |-> "43",
                      status |-> "Ready", code |-> None]
                ELSE NoCtx]
    /\ now = 0
    /\ pc = [t \in Tasks |-> "idle"]
    /\ call = [t \in Tasks |-> NoCall]
    /\ req = [t \in Tasks |-> NoReq]
    /\ sessions = [t \in Tasks |-> 0]
    /\ result = [t \in Tasks |-> NoResult]
    /\ sent = [t \in Tasks |-> <<>>]
    /\ answers = [t \in Tasks |-> <<>>]
    /\ got = [t \in Tasks |-> NoResponse]
    /\ sleeps = [t \in Tasks |-> 0]
    /\ cb = [t \in Tasks |-> <<>>]

\* What the remote answers the two of them with
ConcResponses ==
    {r \in Responses :
        \/ /\ r.net = "ok"
           /\ r.json
           /\ r.body.error = Absent
           /\ r.body.activation_id = "42"
           /\ r.body.status \in {"READY", "STATUS_OK", "BOGUS"}
           /\ r.body.code \in {Absent, "7"}
        \/ r.net = "ok" /\ ~r.json
        \/ r.net = "ok" /\ r.body.error = "BAD_STATUS" /\ r.body.status = Absent
        \/ r.net = "timeout"}

\* The tasks' steps interleave at the awaits of _get.
NextConc ==
    \E t \in Tasks :
        \/ get_activation_status(t, Own(t))
        \/ set_ready_for_code(t, Own(t))
        \/ cancel_activation(t, Own(t))
        \/ \E resp \in ConcResponses : RespondStatus(t, resp)
        \/ \E resp \in ConcResponses : RespondCancel(t, resp)
        \/ Cancel(t)

SpecConc == InitConc /\ [][NextConc]_vars

\* A whole life of a context in one session: it is bought, refreshed, waited
\* on, ended or cancelled, in any order.
LifeResponses ==
    {r \in Responses :
        \/ /\ r.net = "ok"
           /\ r.json
           /\ r.body.error = Absent
           /\ r.body.activation_id = "42"
           /\ r.body.status \in {"READY", "STATUS_OK", "BOGUS"}
           /\ r.body.code \in {Absent, "7"}
        \/ r.net = "ok" /\ r.body.error = "BAD_STATUS" /\ r.body.status = Absent
        \/ r.net = "timeout"}

NextLife ==
    \/ \E t \in {"t1"} :
        \/ buy_number(t, "Telegram", "Russia")
        \/ \E c \in CtxIds : get_activation_status(t, c)
        \/ \E c \in CtxIds : end_activation(t, c)
        \/ \E c \in CtxIds : cancel_activation(t, c)
        \/ \E c \in CtxIds :
              register_code_received_callback(t, c, SleepSeconds - 1, FALSE)
        \/ \E resp \in LifeResponses : RespondBuy(t, resp)
        \/ \E resp \in LifeResponses : RespondStatus(t, resp)
        \/ \E resp \in LifeResponses : RespondCancel(t, resp)
        \/ LoopIteration(t)
        \/ \E resp \in LifeResponses : RespondPoll(t, resp)
        \/ SleepDone(t)
        \/ Cancel(t)
    \/ Tick

SpecLife == Init /\ [][NextLife]_vars

\* The wait for a code when nothing is withheld for ever: the clock advances,
\* every poll is answered, every sleep ends and the task is scheduled. The
\* clock of the model ends at MaxClock, so an answer comes while a sleep that
\* follows it can still end, and the clock waits for the answer until then.
InTime == now + SleepSeconds <= MaxClock

PollReturns(t) == InTime /\ \E resp \in LifeResponses : RespondPoll(t, resp)

ClockAdvances ==
    /\ Tick
    /\ \A t \in Tasks : pc[t] = "get" => InTime'

NextAwaitFair ==
    \/ \E t \in {"t1"} :
        \/ \E c \in CtxIds, max_wait \in MaxWaits, coroutine \in BOOLEAN :
              register_code_received_callback(t, c, max_wait, coroutine)
        \/ LoopIteration(t)
        \/ PollReturns(t)
        \/ SleepDone(t)
    \/ ClockAdvances

SpecAwaitFair ==
    /\ InitAwait
    /\ [][NextAwaitFair]_vars
    /\ WF_vars(ClockAdvances)
    /\ \A t \in {"t1"} : /\ WF_vars(LoopIteration(t))
                         /\ WF_vars(PollReturns(t))
                         /\ WF_vars(SleepDone(t))

\* The wait for a code against a remote that takes its time: no poll is
\* answered, with a payload or a failure, before PollSeconds have passed.
PollTakes(t, seconds) ==
    /\ now >= call[t].asked + seconds
    /\ \E resp \in Responses : RespondPoll(t, resp)

NextPace ==
    \/ \E t \in {"t1"} :
        \/ \E c \in CtxIds, max_wait \in MaxWaits, coroutine \in BOOLEAN :
              register_code_received_callback(t, c, max_wait, coroutine)
        \/ LoopIteration(t)
        \/ PollTakes(t, PollSeconds)
        \/ SleepDone(t)
        \/ Cancel(t)
    \/ Tick

SpecPace == InitAwait /\ [][NextPace]_vars

\* ------------------------------------------------------------------ claims
Last(seq) == seq[Len(seq)]
AllNoCode(seq) == \A i \in 1 .. Len(seq) : seq[i] = "nocode"
Idle(t) == pc[t] = "idle"
Waits(t) == call[t].op = "register_code_received_callback"
Cancels(t) == call[t].op = "cancel_activation"
NoCodeReceived == Exception("NoCodeReceived", None)
CancelledError == Exception("CancelledError", None)

\* The context c holds exactly what the last response said.
AsAnswered(t, c) ==
    /\ ctx[c].status = StatusByValue[got[t].body.status]
    /\ ctx[c].code = GetCode(got[t].body)

\* The exception a failed answer must surface as.
RaisedAs(t, answer) ==
    /\ result[t].kind = "raised"
    /\ CASE answer = "TransportError" ->
              result[t].exc = Exception("TransportError", got[t].net)
         [] answer = "GetAltsAPIError" ->
              result[t].exc = Exception("GetAltsAPIError", got[t].body.error)
         [] answer = "JSONDecodeError" ->
              result[t].exc.type = "JSONDecodeError"
         [] OTHER -> result[t].exc.type \in {"KeyError", "ValueError"}

C2_FailsAtFirstCheckAlways ==
    \A t \in Tasks :
        (Waits(t) /\ call[t].max_wait = 0 /\ AllNoCode(answers[t]))
            => (sent[t] = <<>> /\ sleeps[t] = 0)

\* C2 amended: with max_wait = 0 the first deadline check raises
\* NoCodeReceived, before any poll or sleep, when the clock reads later than
\* the start time; when the clock still reads the start time the check
\* passes and the first poll goes out.
C2_FirstCheck ==
    [][\A t \in Tasks :
          (/\ Waits(t)
           /\ call[t].max_wait = 0
           /\ pc[t] = "loop"
           /\ sent[t] = <<>>
           /\ pc'[t] # "loop")
          => IF now > call[t].start
             THEN /\ pc'[t] = "idle"
                  /\ result'[t] = Raised(NoCodeReceived)
                  /\ sent'[t] = <<>>
                  /\ sleeps'[t] = 0
             ELSE /\ pc'[t] = "get"
                  /\ Len(sent'[t]) = 1
                  /\ result'[t] = NoResult]_vars

C2_Witness ==
    \E t \in Tasks :
        /\ Waits(t)
        /\ call[t].max_wait = 0
        /\ now > call[t].start
        /\ result[t] = Raised(NoCodeReceived)
        /\ sent[t] = <<>>
        /\ sleeps[t] = 0

\* C3: when n polls came back without a code and the next one with a code,
\* the wait has polled n+1 times, slept n times (once after each code-less
\* poll, each sleep set to end SleepSeconds later), invoked the callback once
\* with the context the last poll left, and returned.
C3_PollsSleepsCallback ==
    \A t \in Tasks : Waits(t) =>
        /\ AllNoCode(answers[t]) => sleeps[t] = Len(answers[t])
        /\ pc[t] = "sleep" =>
              /\ call[t].wake <= now + SleepSeconds
              /\ call[t].wake >= call[t].start + SleepSeconds * sleeps[t]
        /\ (/\ Len(answers[t]) >= 1
            /\ Last(answers[t]) = "code"
            /\ AllNoCode(SubSeq(answers[t], 1, Len(answers[t]) - 1)))
           => /\ Len(sent[t]) = Len(answers[t])
              /\ sleeps[t] = Len(answers[t]) - 1
              /\ Len(cb[t]) = 1
              /\ cb[t][1].context = call[t].c
              /\ cb[t][1].seen = ctx[call[t].c]
              /\ AsAnswered(t, call[t].c)
              /\ Idle(t)
              /\ result[t] = Returned(0)

C3_Witness ==
    \E t \in Tasks :
        /\ Waits(t)
        /\ answers[t] = <<"nocode", "nocode", "code">>
        /\ Len(sent[t]) = 3
        /\ sleeps[t] = 2
        /\ Len(cb[t]) = 1

\* C4: in cancel_activation, when the Cancel request fails with
\* GetAltsAPIError, exactly one already_used request follows and its outcome
\* is the outcome of the call; when the Cancel request succeeds, no
\* already_used request is sent and the Cancel result is returned.
C4_CancelFallback ==
    \A t \in Tasks : (Cancels(t) /\ Len(answers[t]) >= 1) =>
        /\ answers[t][1] = "GetAltsAPIError" =>
              /\ Len(sent[t]) = 2
              /\ sent[t][1].status = "cancel"
              /\ sent[t][2] = Request("set_activation_status",
                                      ctx[call[t].c].activation_id,
                                      "already_used", None, None)
              /\ ~Idle(t) => Len(answers[t]) = 1 /\ result[t] = NoResult
              /\ Idle(t) =>
                    IF Len(answers[t]) = 1 THEN result[t] = Raised(CancelledError)
                    ELSE IF answers[t][2] \in {"code", "nocode"}
                    THEN /\ result[t] = Returned(call[t].c)
                         /\ AsAnswered(t, call[t].c)
                    ELSE RaisedAs(t, answers[t][2])
        /\ answers[t][1] \in {"code", "nocode"} =>
              /\ Len(sent[t]) = 1
              /\ sent[t][1].status = "cancel"
              /\ Idle(t)
              /\ result[t] = Returned(call[t].c)
              /\ AsAnswered(t, call[t].c)

C4_Witness ==
    \E t \in Tasks :
        /\ Cancels(t)
        /\ answers[t] = <<"GetAltsAPIError", "nocode">>
        /\ Len(sent[t]) = 2
        /\ result[t] = Returned(call[t].c)

\* C5: in cancel_activation, when the Cancel request fails with anything but
\* GetAltsAPIError (connect error, timeout, HTTP status, undecodable text or
\* status), that failure is raised to the caller and no already_used request
\* is sent.
C5_OnlyAPIErrorFallsBack ==
    \A t \in Tasks :
        (/\ Cancels(t)
         /\ Len(answers[t]) >= 1
         /\ answers[t][1] \in {"TransportError", "JSONDecodeError", "malformed"})
        => /\ Len(sent[t]) = 1
           /\ sent[t][1].status = "cancel"
           /\ Idle(t)
           /\ RaisedAs(t, answers[t][1])

C5_Witness ==
    \E t \in Tasks :
        /\ Cancels(t)
        /\ answers[t] = <<"TransportError">>
        /\ got[t].net = "timeout"
        /\ result[t] = Raised(Exception("TransportError", "timeout"))

\* A task suspended in a get_activation_status or set_activation_status
\* request takes a step that receives a failure.
StatusCallFails(t) ==
    /\ pc[t] = "get"
    /\ req[t].endpoint \in {"get_activation_status", "set_activation_status"}
    /\ Len(answers'[t]) = Len(answers[t]) + 1
    /\ answers'[t][Len(answers'[t])] \notin {"code", "nocode"}

\* C6: a get_activation_status or _set_activation_status call that fails
\* (transport failure, error payload, undecodable text, unknown or missing
\* status) changes no field of any context: the step that receives the
\* failure leaves the heap as it was, and an operation that raised leaves
\* its context with the status and code it had when the call began.
C6_FailureLeavesContext ==
    /\ [][\A t \in Tasks : StatusCallFails(t) => ctx' = ctx]_vars
    /\ [](\A t \in Tasks :
            (call[t].op \in StatusOps /\ result[t].kind = "raised")
                => ctx[call[t].c] = call[t].before)

C6_Witness ==
    \E t \in Tasks :
        /\ call[t].op = "get_activation_status"
        /\ result[t].kind = "raised"
        /\ result[t].exc = Exception("ValueError", "BOGUS")
        /\ got[t].body.code = "7"
        /\ ctx[call[t].c].code = None
        /\ ctx[call[t].c] = call[t].before

\* C7: every status operation that returns (get_activation_status, the four
\* wrappers, cancel_activation) returns the context object it was given, and
\* no step ever changes the phone_number or activation_id of an allocated
\* context.
C7_SameIdentitySameIds ==
    /\ [](\A t \in Tasks :
            (/\ call[t].op \in StatusOps \cup {"cancel_activation"}
             /\ result[t].kind = "returned")
                => /\ result[t].value = call[t].c
                   /\ ctx[call[t].c].phone_number = call[t].before.phone_number
                   /\ ctx[call[t].c].activation_id = call[t].before.activation_id)
    /\ [][\A c \in CtxIds :
            Allocated(c) =>
                /\ ctx'[c].phone_number = ctx[c].phone_number
                /\ ctx'[c].activation_id = ctx[c].activation_id]_vars

C7_Witness ==
    \E t \in Tasks :
        /\ call[t].op = "end_activation"
        /\ result[t] = Returned(call[t].c)
        /\ got[t].body.activation_id = "43"
        /\ got[t].body.phone_number = "+7901"
        /\ ctx[call[t].c].activation_id = "42"
        /\ ctx[call[t].c].status # call[t].before.status

C9_PollErrorAborts ==
    \A t \in Tasks :
        (/\ Waits(t)
         /\ \E i \in 1 .. Len(answers[t]) :
               answers[t][i] \in {"TransportError", "GetAltsAPIError"})
        => /\ Last(answers[t]) \in {"TransportError", "GetAltsAPIError"}
           /\ AllNoCode(SubSeq(answers[t], 1, Len(answers[t]) - 1))
           /\ Idle(t)
           /\ RaisedAs(t, Last(answers[t]))
           /\ result[t].exc.type = Last(answers[t])
           /\ Len(sent[t]) = Len(answers[t])
           /\ sleeps[t] = Len(answers[t]) - 1
           /\ cb[t] = <<>>
           /\ sessions[t] = 0

C9_Witness ==
    \E t \in Tasks :
        /\ Waits(t)
        /\ answers[t] = <<"nocode", "GetAltsAPIError">>
        /\ result[t] = Raised(Exception("GetAltsAPIError", "NO_BALANCE"))
        /\ sleeps[t] = 1

\* C10: a wait cancelled while suspended in its sleep or in a poll's request
\* is over at once: the task is idle with CancelledError, no request is in
\* flight and none was started after the cancellation, the callback was not
\* invoked, and no session scope is open.
C10_CancelEndsWait ==
    \A t \in Tasks :
        (Waits(t) /\ result[t].kind = "raised"
                  /\ result[t].exc = CancelledError)
        => /\ Idle(t)
           /\ req[t] = NoReq
           /\ sessions[t] = 0
           /\ cb[t] = <<>>
           /\ AllNoCode(answers[t])
           /\ sleeps[t] = Len(answers[t])
           /\ Len(sent[t]) \in {Len(answers[t]), Len(answers[t]) + 1}

\* Cancelled in the request of the second poll, after one sleep.
C10_Witness ==
    \E t \in Tasks :
        /\ Waits(t)
        /\ result[t] = Raised(CancelledError)
        /\ Len(sent[t]) = 2
        /\ answers[t] = <<"nocode">>
        /\ sleeps[t] = 1

\* Cancelled in the sleep after the first poll.
CancelledInSleep ==
    \E t \in Tasks :
        /\ Waits(t)
        /\ result[t] = Raised(CancelledError)
        /\ Len(sent[t]) = 1
        /\ answers[t] = <<"nocode">>
        /\ sleeps[t] = 1

\* The last response of the task's operation carried a payload: the
\* transport succeeded, the text was JSON and it had no error key.
GotPayload(t) ==
    /\ got[t].net = "ok"
    /\ got[t].json
    /\ got[t].body.error = Absent

\* The operations that decode the status of a response
DecodesStatus(op) == op \in StatusOps \cup {"buy_number", "cancel_activation"}

\* The payload the operation of the task ended on holds a wire value that no
\* member of the enumeration it is decoded with has.
UnknownWire(t) ==
    /\ Idle(t)
    /\ result[t].kind # "none"
    /\ GotPayload(t)
    /\ \/ /\ DecodesStatus(call[t].op)
          /\ got[t].body.status \notin Values(StatusEnum) \cup {Absent}
       \/ /\ call[t].op \in QueryOps
          /\ \E i \in DOMAIN got[t].body.items :
                got[t].body.items[i][1] \notin Values(KeyEnum(call[t].op))

\* C11: an operation whose response payload holds a wire value that is no
\* member's code (the status of a buy_number, get_activation_status or
\* set_activation_status response, a key of a count or price response) ends
\* by raising, ValueError unless a missing key raised KeyError first: it
\* returns nothing, neither a dict of the keys that could be decoded nor a
\* context, and the step that receives such a status changes no context.
C11_UnknownWireFails ==
    /\ [](\A t \in Tasks :
            UnknownWire(t)
            => /\ result[t].kind = "raised"
               /\ result[t].value = 0
               /\ result[t].exc.type \in {"ValueError", "KeyError"}
               /\ call[t].op \in QueryOps
                  => /\ result[t].exc.type = "ValueError"
                     /\ result[t].exc.arg \notin Values(KeyEnum(call[t].op))
                     /\ \E i \in DOMAIN got[t].body.items :
                           got[t].body.items[i][1] = result[t].exc.arg
               /\ call[t].op \in StatusOps \cup {"cancel_activation"}
                  => result[t].exc =
                        Exception("ValueError", got[t].body.status))
    /\ [][\A t \in Tasks : (~UnknownWire(t) /\ UnknownWire(t)') => ctx' = ctx]_vars

\* Prices by service answered with a key that is a country's code followed
\* by one that is not: nothing of the first key is returned.
C11_Witness ==
    \E t \in Tasks :
        /\ UnknownWire(t)
        /\ call[t].op = "get_prices_by_service"
        /\ got[t].body.items = <<<<"tg", "5">>, <<"zz", "1">>>>
        /\ result[t] = Raised(Exception("ValueError", "zz"))

\* A purchase answered with a status no member has creates no context.
C11_UnknownStatus ==
    \E t \in Tasks :
        /\ UnknownWire(t)
        /\ call[t].op = "buy_number"
        /\ result[t] = Raised(Exception("ValueError", "BOGUS"))
        /\ \A c \in CtxIds : ~Allocated(c)

\* An enumeration's coding is one-to-one and both round trips are identities.
Bijective(enum) ==
    /\ \A m1, m2 \in Members(enum) :
          ValueOf(enum, m1) = ValueOf(enum, m2) => m1 = m2
    /\ \A m \in Members(enum) : ByValue(enum, ValueOf(enum, m)) = m
    /\ \A w \in Values(enum) : ValueOf(enum, ByValue(enum, w)) = w

\* Service, Country and Status, every member and every code of each
EnumsBijective ==
    /\ Bijective(ServiceEnum)
    /\ Bijective(CountryEnum)
    /\ Bijective(StatusEnum)

\* The enumeration the argument of a query is encoded with
ArgEnum(op) ==
    IF op = "get_prices_by_service" THEN ServiceEnum ELSE CountryEnum

\* The wire code a query sent for its argument
ArgWire(op, r) == IF op = "get_prices_by_service" THEN r.service ELSE r.country

\* C12: in Service, Country and Status no two members have the same wire
\* code, decoding the code of a member gives that member, and encoding the
\* member a code decodes to gives that code; so the code a query sends
\* decodes to the member the caller passed, every key of a returned dict
\* encodes to the key of the response it came from (with its value), and the
\* status a refresh stored encodes to the status of the response.
C12_CodesAreBijections ==
    /\ EnumsBijective
    /\ \A t \in Tasks :
        /\ (call[t].op \in QueryOps /\ Len(sent[t]) = 1)
           => /\ ArgWire(call[t].op, sent[t][1])
                    \in Values(ArgEnum(call[t].op))
              /\ ByValue(ArgEnum(call[t].op), ArgWire(call[t].op, sent[t][1]))
                    = call[t].arg
        /\ (call[t].op \in QueryOps /\ result[t].kind = "returned")
           => /\ Len(result[t].value) = Len(got[t].body.items)
              /\ \A i \in DOMAIN result[t].value :
                    /\ ValueOf(KeyEnum(call[t].op), result[t].value[i][1])
                          = got[t].body.items[i][1]
                    /\ result[t].value[i][2] = got[t].body.items[i][2]
        /\ (call[t].op = "get_activation_status"
                /\ result[t].kind = "returned")
           => ValueOf(StatusEnum, ctx[call[t].c].status) = got[t].body.status

\* Counts asked for Chad, whose code is also the code of the service
\* Telegram: the request carries "tg", the answer's key "tg" is Telegram.
C12_Witness ==
    \E t \in Tasks :
        /\ call[t].op = "get_available_numbers_count"
        /\ call[t].arg = "Chad"
        /\ result[t].kind = "returned"
        /\ Len(sent[t]) = 1
        /\ sent[t][1].country = "tg"
        /\ got[t].body.items = <<<<"ms", "5">>, <<"tg", "1">>>>
        /\ result[t] = Returned(<<<<"Microsoft", "5">>, <<"Telegram", "1">>>>)

\* The tasks suspended in _get, and the session scopes that are open
InFlight == {t \in Tasks : pc[t] = "get"}
OpenScopes == sessions["t1"] + sessions["t2"]

\* C13: every call of _get holds exactly one session scope of its own from
\* the moment it is entered until it is left, by a payload, an API error, a
\* decoding failure, a transport failure or a cancellation: a task holds one
\* scope while it is suspended in _get and none otherwise, so the number of
\* open scopes equals the number of calls in flight and is zero when no call
\* is in flight.
C13_ScopePerCall ==
    /\ \A t \in Tasks : sessions[t] = IF t \in InFlight THEN 1 ELSE 0
    /\ \A t \in Tasks : (req[t] # NoReq) <=> (t \in InFlight)
    /\ OpenScopes = Cardinality(InFlight)
    /\ InFlight = {} => OpenScopes = 0

\* One task was cancelled in the fallback request of cancel_activation, after
\* the first request ended with an API error; the other is still in flight.
C13_Witness ==
    /\ call["t1"].op = "cancel_activation"
    /\ Len(sent["t1"]) = 2
    /\ answers["t1"] = <<"GetAltsAPIError">>
    /\ result["t1"] = Raised(CancelledError)
    /\ sessions["t1"] = 0
    /\ pc["t2"] = "get"
    /\ OpenScopes = 1

\* The task's operation is one on a context.
OnContext(t) == call[t].c # 0

\* The step writes context c from a response the task working on c received.
WrittenByOwner(c) ==
    \E t \in Tasks :
        /\ call[t].c = c
        /\ pc[t] = "get"
        /\ Idle(t)'
        /\ result'[t] = Returned(c)
        /\ GotPayload(t)'
        /\ ctx'[c].status = StatusByValue[got'[t].body.status]
        /\ ctx'[c].code = GetCode(got'[t].body)

\* C14: two tasks work on two contexts through one client, their steps
\* interleaved in every way. Every request of a task carries the activation
\* id of the task's own context; an operation that returned leaves its
\* context with the status and code of the last response to its own request,
\* one that raised leaves its context as it was when the operation began;
\* and a context changes only in a step in which the task working on it
\* receives a response, never in a step of the other task.
C14_ContextsAreIndependent ==
    /\ [](\A t \in Tasks :
            OnContext(t)
            => /\ \A i \in DOMAIN sent[t] :
                     sent[t][i].activation_id = ctx[call[t].c].activation_id
               /\ (Idle(t) /\ result[t].kind = "returned")
                     => AsAnswered(t, call[t].c)
               /\ (Idle(t) /\ result[t].kind = "raised")
                     => ctx[call[t].c] = call[t].before)
    /\ [][\A c \in CtxIds : ctx'[c] # ctx[c] => WrittenByOwner(c)]_vars

\* Each task has finished an operation on its own context, the second after
\* a fallback: the first context holds the status and code of the first
\* task's response, the second the status of the second task's and no code.
C14_Witness ==
    /\ call["t1"].op = "get_activation_status"
    /\ call["t2"].op = "cancel_activation"
    /\ result["t1"] = Returned(1)
    /\ result["t2"] = Returned(2)
    /\ Len(sent["t2"]) = 2
    /\ sent["t1"][1].activation_id = "42"
    /\ sent["t2"][1].activation_id = "43"
    /\ sent["t2"][2].activation_id = "43"
    /\ ctx[1].status = "StatusOk"
    /\ ctx[1].code = "7"
    /\ ctx[2].status = "Ready"
    /\ ctx[2].code = None
    /\ got["t1"].body.status = "STATUS_OK"
    /\ got["t2"].body.status = "READY"

\* The task's operation ended on the response got[t], not on a cancellation.
EndedOnResponse(t) ==
    /\ Idle(t)
    /\ result[t].kind # "none"
    /\ result[t].exc # CancelledError
    /\ got[t].net # "none"

\* C15: the outcome of _get is decided in a fixed order. A response of a
\* failed transport (connect error, timeout, non-success HTTP status) raises
\* the transport's error whatever its body holds; otherwise a JSON payload
\* with a top-level error key raises GetAltsAPIError with exactly the string
\* under that key. So GetAltsAPIError is raised only for a successful
\* transport whose payload has the error key, and an operation returns only
\* on a successful transport whose payload has no error key.
C15_OutcomeOrder ==
    \A t \in Tasks :
        EndedOnResponse(t)
        => /\ got[t].net # "ok"
              => result[t] = Raised(Exception("TransportError", got[t].net))
           /\ (got[t].net = "ok" /\ got[t].json /\ got[t].body.error # Absent)
              => result[t] = Raised(Exception("GetAltsAPIError",
                                              got[t].body.error))
           /\ result[t].exc.type = "GetAltsAPIError"
              => /\ got[t].net = "ok"
                 /\ got[t].json
                 /\ got[t].body.error = result[t].exc.arg
           /\ result[t].kind = "returned"
              => /\ got[t].net = "ok"
                 /\ got[t].json
                 /\ got[t].body.error = Absent

\* A non-success HTTP status whose body is an error payload: the transport's
\* error is raised, not the API's.
C15_Witness ==
    \E t \in Tasks :
        /\ EndedOnResponse(t)
        /\ got[t].net = "http_error"
        /\ got[t].json
        /\ got[t].body.error = "NO_BALANCE"
        /\ result[t] = Raised(Exception("TransportError", "http_error"))

\* The status parameter each lifecycle operation is to send first
WireCode(op) ==
    CASE op = "set_ready_for_code" -> "sms_sent"
      [] op = "end_activation" -> "end"
      [] op = "send_another_code" -> "one_more_code"
      [] op = "mark_number_as_already_used" -> "already_used"
      [] op = "cancel_activation" -> "cancel"

Wrappers == {"set_ready_for_code", "end_activation", "send_another_code",
             "mark_number_as_already_used"}

\* C16: set_ready_for_code, end_activation, send_another_code and
\* mark_number_as_already_used each send exactly one request, and
\* cancel_activation sends as its first: set_activation_status with the
\* activation id of the context and the status 'sms_sent', 'end',
\* 'one_more_code', 'already_used' and 'cancel' respectively, in lowercase;
\* each of them can be started on an allocated context whatever its status.
C16_OneLowercaseRequest ==
    \A t \in Tasks :
        /\ call[t].op \in Wrappers \cup {"cancel_activation"}
           => /\ Len(sent[t]) >= 1
              /\ call[t].op \in Wrappers => Len(sent[t]) = 1
              /\ sent[t][1] = Request("set_activation_status",
                                      call[t].before.activation_id,
                                      WireCode(call[t].op), None, None)
              /\ call[t].before.activation_id = ctx[call[t].c].activation_id
        /\ Idle(t)
           => \A c \in CtxIds :
                Allocated(c)
                => /\ ENABLED set_ready_for_code(t, c)
                   /\ ENABLED end_activation(t, c)
                   /\ ENABLED send_another_code(t, c)
                   /\ ENABLED mark_number_as_already_used(t, c)
                   /\ ENABLED cancel_activation(t, c)

\* end_activation on a context that is still waiting for its code
C16_Witness ==
    \E t \in Tasks :
        /\ call[t].op = "end_activation"
        /\ call[t].before.status = "WaitingForCode"
        /\ sent[t] = <<Request("set_activation_status", "42", "end",
                               None, None)>>
        /\ result[t] = Returned(call[t].c)

\* In this step task t receives a response with a payload whose status is
\* the wire value of a member.
ReceivesStatus(t) ==
    /\ pc[t] = "get"
    /\ Len(answers'[t]) = Len(answers[t]) + 1
    /\ GotPayload(t)'
    /\ got'[t].body.status \in Values(StatusEnum)

\* The status and code such a response leaves on a context
StatusOf(resp) == ByValue(StatusEnum, resp.body.status)
CodeOf(resp) == IF resp.body.code = Absent THEN None ELSE resp.body.code

\* In this step context c is written from a status response received for it.
Refreshed(c) ==
    \E t \in Tasks :
        /\ ReceivesStatus(t)
        /\ call[t].c = c
        /\ req[t].endpoint \in {"get_activation_status", "set_activation_status"}
        /\ req[t].activation_id = ctx[c].activation_id
        /\ ctx'[c].status = StatusOf(got'[t])
        /\ ctx'[c].code = CodeOf(got'[t])

\* In this step context c is created from a purchase response.
Bought(c) ==
    \E t \in Tasks :
        /\ ReceivesStatus(t)
        /\ req[t].endpoint = "buy_number"
        /\ ctx[c] = NoCtx
        /\ ctx'[c].status = StatusOf(got'[t])
        /\ ctx'[c].code = None

\* C17: through purchases, refreshes, lifecycle operations, cancellations
\* with and without fallback and waits for a code, a context is written only
\* from responses: every status response with a payload and a known status
\* that a call on the context receives overwrites its status and code with
\* those of the response, the code with None when the response has no code
\* key; every other change of a context is its creation from a purchase
\* response, with that response's status and no code. So a finished
\* cancel_activation or wait leaves what the last such response said, or what
\* the context held before when none came.
C17_OnlyResponsesWrite ==
    /\ [][\A c \in CtxIds :
            /\ (\E t \in Tasks : /\ ReceivesStatus(t)
                                 /\ call[t].c = c
                                 /\ req[t].endpoint # "buy_number")
               => Refreshed(c)
            /\ ctx'[c] # ctx[c] => Refreshed(c) \/ Bought(c)]_vars
    /\ [](\A t \in Tasks :
            (Idle(t) /\ (Cancels(t) \/ Waits(t)) /\ result[t].kind # "none")
            => /\ answers[t] = <<>> => ctx[call[t].c] = call[t].before
               /\ (answers[t] # <<>> /\ Last(answers[t]) \in {"code", "nocode"})
                  => AsAnswered(t, call[t].c)
               /\ (/\ answers[t] # <<>>
                   /\ Last(answers[t]) \notin {"code", "nocode"}
                   /\ Cancels(t) \/ Len(answers[t]) = 1)
                  => ctx[call[t].c] = call[t].before)

\* The context held a code; end_activation is answered without a code key:
\* the code is gone and the status is the one of the answer.
C17_Witness ==
    \E t \in Tasks :
        /\ call[t].op = "end_activation"
        /\ call[t].before.code = "7"
        /\ call[t].before.status = "StatusOk"
        /\ result[t] = Returned(call[t].c)
        /\ got[t].body.code = Absent
        /\ got[t].body.status = "READY"
        /\ ctx[call[t].c].code = None
        /\ ctx[call[t].c].status = "Ready"

\* A wait timed out and cancel_activation was answered READY: the context
\* is Ready, not Cancelled.
C17_NotInferred ==
    \E t \in Tasks :
        /\ Cancels(t)
        /\ now > 0
        /\ result[t] = Returned(call[t].c)
        /\ ctx[call[t].c].status = "Ready"

\* The three ways a wait ends
CodeArrived(t) ==
    /\ result[t] = Returned(0)
    /\ Len(cb[t]) = 1
    /\ Last(answers[t]) = "code"

TimedOut(t) ==
    /\ result[t] = Raised(NoCodeReceived)
    /\ cb[t] = <<>>

PollFailed(t) ==
    /\ result[t].kind = "raised"
    /\ result[t].exc \notin {NoCodeReceived, CancelledError}
    /\ answers[t] # <<>>
    /\ RaisedAs(t, Last(answers[t]))
    /\ cb[t] = <<>>

Ended(t) ==
    /\ Idle(t)
    /\ \/ CodeArrived(t) /\ ~TimedOut(t) /\ ~PollFailed(t)
       \/ ~CodeArrived(t) /\ TimedOut(t) /\ ~PollFailed(t)
       \/ ~CodeArrived(t) /\ ~TimedOut(t) /\ PollFailed(t)

PastDeadline(t) == now > call[t].start + call[t].max_wait

\* C19: in register_code_received_callback the deadline is looked at only at
\* the head of the loop, against the clock. NoCodeReceived is raised only
\* from the head of the loop in a state with now > start + max_wait; a poll
\* is started only from the head of the loop in a state with
\* now <= start + max_wait; a poll that is answered with a code ends the
\* wait with the callback invoked and a normal return, however late the
\* answer is; and when no answer comes sooner than PollSeconds after its
\* request, a wait sends at most max_wait \div (5 + PollSeconds) + 1 polls.
C19_DeadlineAtLoopHead ==
    /\ [][\A t \in Tasks :
            Waits(t)' =>
              /\ (result'[t] = Raised(NoCodeReceived) /\ ~Idle(t))
                 => pc[t] = "loop" /\ PastDeadline(t) /\ sent'[t] = sent[t]
              /\ (Waits(t) /\ Len(sent'[t]) = Len(sent[t]) + 1)
                 => /\ pc[t] = "loop"
                    /\ ~PastDeadline(t)
                    /\ call'[t].asked = now
              /\ (pc[t] = "get" /\ answers'[t] = Append(answers[t], "code"))
                 => /\ call[t].asked <= call[t].start + call[t].max_wait
                    /\ now >= call[t].asked + PollSeconds
                    /\ Idle(t)'
                    /\ CodeArrived(t)']_vars
    /\ [](\A t \in Tasks :
            Waits(t)
            => /\ Len(sent[t]) <=
                    call[t].max_wait \div (SleepSeconds + PollSeconds) + 1
               /\ result[t] = Raised(NoCodeReceived) => PastDeadline(t))

\* The second poll went out before the deadline and its answer, a code, came
\* after it: the callback ran and the wait returned.
C19_Witness ==
    \E t \in Tasks :
        /\ Waits(t)
        /\ Idle(t)
        /\ CodeArrived(t)
        /\ call[t].max_wait = MaxWait
        /\ Len(sent[t]) = 2
        /\ PastDeadline(t)

\* As many polls as the bound allows, then NoCodeReceived.
C19_MostPolls ==
    \E t \in Tasks :
        /\ Waits(t)
        /\ result[t] = Raised(NoCodeReceived)
        /\ call[t].max_wait = MaxWait
        /\ Len(sent[t]) = MaxWait \div (SleepSeconds + PollSeconds) + 1
        /\ AllNoCode(answers[t])

====
